---- MODULE Spec2Model ----
(***************************************************************************)
(* Model of the audio splitting core of wingerboy/audio_app:               *)
(* src/src/audio/audio_splitter.py (AudioSplitter) and the helpers it      *)
(* calls in src/src/audio/audio_utils.py.                                  *)
(*                                                                         *)
(* src/src/audio/audio_converter.py (AudioConverter) and the tail of        *)
(* AudioProcessorAdapter.split_audio (src/src/audio_processor_adapter.py)  *)
(* are modelled too.                                                       *)
(*                                                                         *)
(* The specifications of the module:                                       *)
(*   Spec          one call of AudioSplitter.split: the worker pool, the   *)
(*                 FFmpeg semaphore, the ffmpeg child processes and the    *)
(*                 backend chain of every job, under every interleaving;   *)
(*   SpecEncode    the same for one job and every output file size;        *)
(*   SpecLive      the same for small batches, with fair scheduling;       *)
(*   SpecLarge     the same for a source above the large-file limit;       *)
(*   SpecValidate  the segment validation loop at the head of split;       *)
(*   SpecOrder     the naming, collection and final sort of the output     *)
(*                 paths, for batches small and large;                     *)
(*   SpecExtract   one call of AudioConverter.extract_audio;               *)
(*   SpecPlan      AudioSplitter.prepare_segments, applied to raw segments *)
(*                 and then to its own result;                             *)
(*   SpecPool      the size of the worker pool of split, for every value   *)
(*                 of the constructor's arguments;                         *)
(*   SpecShared    two AudioSplitter instances and the module-level        *)
(*                 FFmpeg semaphore;                                       *)
(*   SpecTimeout   the timeout of the ffmpeg child, for every duration;    *)
(*   SpecProgress  the progress counters and the progress callback of one  *)
(*                 call of split, for each on_progress its callers pass;   *)
(*   SpecBatch     the calls of split made by one call of                  *)
(*                 AudioProcessorAdapter.split_audio, and the paths they   *)
(*                 give to the segments.                                   *)
(* Times are whole seconds, file sizes whole bytes, characters their code  *)
(* points.                                                                 *)
(***************************************************************************)
EXTENDS Integers, Sequences, FiniteSets, TLC

VARIABLES
    \* ---- Spec: one split() call ----
    N,                 \* len(valid_segments)
    source_mb,         \* size of the source audio file, in MB
    max_workers,       \* self.max_workers
    max_ffmpeg_processes, \* self.max_ffmpeg_processes (capacity of the semaphore)
    ffmpeg_available,  \* self._ffmpeg_available
    pyav_usable,       \* self._pyav_available and the source extension is in the PyAV list
    sem,               \* free units of FFMPEG_SEMAPHORE
    active_processes,  \* self._active_processes (jobs whose Popen handle is tracked)
    pc,                \* per job: where its worker thread stands
    proc,              \* per job: state of the ffmpeg child process it spawned
    sigs,              \* per job: signals sent to that child, in order
    tried,             \* per job: backends attempted, in order
    timedOut,          \* per job: communicate() raised TimeoutExpired
    file_sizes,        \* the sizes of the files the backends of this run can write
    outFile,           \* per job: size of the output file on disk, -1 when absent
    result,            \* per job: "none", "ok" (split_task returns the path), "fail"
    progress_monitor,  \* the shared counters current / success / failed
    output_files,      \* split's output_files list, in as_completed order
    splitPc,           \* "start", "pool", "done"
    ret,               \* the list split returned
    outcome,           \* "none", "returned" (a list), "raised"
    \* ---- SpecValidate: the validation loop ----
    vSegs,             \* segment_options_list: records [start, end]
    vDur,              \* audio_duration
    vIdx,              \* loop index
    valid_segments,    \* valid_segments built so far
    vPc,               \* "idle", "loop", "done"
    \* ---- SpecOrder: naming and ordering ----
    oN,                \* len(valid_segments)
    oSucc,             \* indices of the jobs that succeed
    oText,             \* the text of their segments
    oLeft,             \* successful futures as_completed has not yielded yet
    oFiles,            \* output_files
    oRet,              \* the list split returned
    oPc,               \* "idle", "collect", "done"
    \* ---- SpecExtract: one AudioConverter.extract_audio call ----
    xSize,             \* size of the input file in bytes, -1 when it does not exist
    xCopy,             \* input_format in audio_formats and input_format == output_format
    xDisk,             \* the use_disk_processing argument
    has_ffmpeg,        \* self.has_ffmpeg, set by _check_ffmpeg in the constructor
    PYAV_AVAILABLE,    \* "import av" succeeded
    xOut,              \* size of the file at output_path in bytes, -1 when absent
    xTried,            \* the backends called so far, each with its result
    xRet,              \* "none", "path" (output_path), "None", "raised"
    xPc,               \* "idle", "start", "copy", "pyav", "pydub", "ffmpeg", "fallback", "done"
    \* ---- SpecPlan: AudioSplitter.prepare_segments ----
    pSegs,             \* segments: records [start, end, text]
    pOpts,             \* min_length, max_length, preserve_sentences
    pIdx,              \* position of the for loop
    temp_segment,      \* <<>> for None, else <<the working buffer>>
    processed_segments, \* the list being built, then the list returned
    pAgain,            \* prepare_segments applied to the returned list, same options
    pPc,               \* "idle", "loop", "again", "done"
    \* ---- SpecPool: the size of the worker pool ----
    wWorkersArg,       \* the max_workers argument (cpu_count - 1 when it is None)
    wProcsArg,         \* the max_ffmpeg_processes argument
    wN,                \* len(valid_segments)
    wMaxWorkers,       \* self.max_workers
    wMaxProcs,         \* self.max_ffmpeg_processes
    wActual,           \* actual_workers, the max_workers of the ThreadPoolExecutor
    wPending,          \* submitted tasks no thread has taken yet
    wBusy,             \* pool threads running a task
    wPc,               \* "idle", "new", "ready", "pool", "done"
    \* ---- SpecShared: two AudioSplitter instances and the module-level semaphore ----
    capA,              \* max_ffmpeg_processes of the first instance
    capB,              \* max_ffmpeg_processes of the second instance
    FFMPEG_SEMAPHORE,  \* the Semaphore object the global name is bound to: "A", "B"
    semFree,           \* per Semaphore object: its free units
    secondBuilt,       \* AudioSplitter.__init__ of the second instance has run
    gPc,               \* per worker thread: "idle", "waiting", "in"
    gSem,              \* per worker thread: the Semaphore object of its with block, or "none"
\* ---- SpecTimeout: the timeout of the ffmpeg child ----
    durations,         \* end_time - start_time of two calls, in eighths of a second
    timeout_seconds,   \* the timeouts computed so far, one per call, in seconds
\* ---- SpecProgress: the progress callback of one call of split ----
    cbMode,            \* what is passed as on_progress: "direct", "standard", "batch"
    cbBatch,           \* batch_idx of the adapter, when cbMode = "batch"
    cbTotal,           \* progress_monitor["total"]
    cbMonitor,         \* progress_monitor: current, success, failed
    cbPc,              \* per job: "run", "call", "done"
    cbSnap,            \* per job: the value of current read under the lock
    cbCounter,         \* the values progress_monitor["current"] has taken, in order
    cbSeen,            \* the percents progress_callback has received, in order
\* ---- SpecBatch: one call of AudioProcessorAdapter.split_audio ----
    bTexts,            \* the text of each element of segment_options_list
    batch_size,        \* the batch size in use
    batch_idx,         \* the next batch of the batch loop
    bAssigned,         \* the output path given to each segment so far, in list order
    all_output_files,  \* the paths returned by the calls of split so far
    bRet,              \* the list split_audio returns
    bPc                \* "call", "done"

splitVars == <<N, source_mb, max_workers, max_ffmpeg_processes, ffmpeg_available, pyav_usable,
               sem, active_processes, pc, proc, sigs, tried, timedOut, file_sizes,
               outFile, result, progress_monitor, output_files, splitPc, ret, outcome>>
valVars == <<vSegs, vDur, vIdx, valid_segments, vPc>>
ordVars == <<oN, oSucc, oText, oLeft, oFiles, oRet, oPc>>
extVars == <<xSize, xCopy, xDisk, has_ffmpeg, PYAV_AVAILABLE, xOut, xTried, xRet, xPc>>
planVars == <<pSegs, pOpts, pIdx, temp_segment, processed_segments, pAgain, pPc>>
poolVars == <<wWorkersArg, wProcsArg, wN, wMaxWorkers, wMaxProcs, wActual, wPending,
              wBusy, wPc>>
semVars == <<capA, capB, FFMPEG_SEMAPHORE, semFree, secondBuilt, gPc, gSem>>
timeoutVars == <<durations, timeout_seconds>>
cbVars == <<cbMode, cbBatch, cbTotal, cbMonitor, cbPc, cbSnap, cbCounter, cbSeen>>
batchVars == <<bTexts, batch_size, batch_idx, bAssigned, all_output_files, bRet, bPc>>
vars == <<splitVars, valVars, ordVars, extVars, planVars, poolVars, semVars, timeoutVars, cbVars, batchVars>>
\* What the steps of one specification leave alone.
notSplitVars == <<valVars, ordVars, extVars, planVars, poolVars, semVars, timeoutVars, cbVars, batchVars>>
notValVars == <<splitVars, ordVars, extVars, planVars, poolVars, semVars, timeoutVars, cbVars, batchVars>>
notOrdVars == <<splitVars, valVars, extVars, planVars, poolVars, semVars, timeoutVars, cbVars, batchVars>>
notExtVars == <<splitVars, valVars, ordVars, planVars, poolVars, semVars, timeoutVars, cbVars, batchVars>>
notPlanVars == <<splitVars, valVars, ordVars, extVars, poolVars, semVars, timeoutVars, cbVars, batchVars>>
notPoolVars == <<splitVars, valVars, ordVars, extVars, planVars, semVars, timeoutVars, cbVars, batchVars>>
notSemVars == <<splitVars, valVars, ordVars, extVars, planVars, poolVars, timeoutVars, cbVars, batchVars>>
notTimeoutVars == <<splitVars, valVars, ordVars, extVars, planVars, poolVars, semVars, cbVars, batchVars>>
notCbVars == <<splitVars, valVars, ordVars, extVars, planVars, poolVars, semVars, timeoutVars, batchVars>>
notBatchVars == <<splitVars, valVars, ordVars, extVars, planVars, poolVars, semVars, timeoutVars, cbVars>>

\* ------------------------------------------------------------------ bounds
MaxSegs == 3
MaxWorkersArg == 3
MaxProcsArg == 2
\* SpecValidate: raw lists of up to MaxRawSegs segments with times in -1 .. MaxTime
MaxRawSegs == 2
MaxTime == 3
\* SpecOrder: the size of the large batch
BigBatch == 1000
\* SpecPool: constructor arguments in 0 .. MaxPoolArg, up to MaxPoolSegs segments
MaxPoolArg == 10
MaxPoolSegs == 10
\* SpecShared: worker threads of the first and of the second instance, and the
\* largest max_ffmpeg_processes argument
NumWorkersA == 3
NumWorkersB == 2
MaxSharedProcsArg == 3
\* SpecTimeout: durations are multiples of 1/TicksPerSecond s, up to MaxTicks
TicksPerSecond == 4
MaxTicks == 104
\* SpecProgress: up to MaxCbJobs jobs in the call, NumBatches batches in the
\* adapter's batch mode
MaxCbJobs == 3
NumBatches == 2
\* SpecBatch: up to MaxBatchSegs segments, batch sizes up to MaxBatchSize
MaxBatchSegs == 4
MaxBatchSize == 3
\* SpecPlan: lists of up to MaxPlanSegs raw segments with times in 0 .. MaxPlanTime,
\* min_length in 1 .. MaxMinLength, max_length in 2 .. MaxMaxLength
MaxPlanSegs == 3
MaxPlanTime == 5
MaxMinLength == 2
MaxMaxLength == 3

\* ------------------------------------------------------------ pure helpers
Max2(a, b) == IF a >= b THEN a ELSE b
Min2(a, b) == IF a <= b THEN a ELSE b

\* AudioSplitter.__init__: self.max_workers = max(2, min(8, max_workers))
ClampWorkers(x) == Max2(2, Min2(8, x))
\* AudioSplitter.__init__: self.max_ffmpeg_processes = max(2, min(8, max_ffmpeg_processes))
ClampProcs(x) == Max2(2, Min2(8, x))
\* Mutant of ActualWorkers: the number of segments is left out.
MutActualWorkersNoSegmentCount(mw, n, mp) == Min2(mw, mp * 2)
\* split: actual_workers = min(self.max_workers, len(valid_segments), self.max_ffmpeg_processes * 2)
ActualWorkers(mw, n, mp) == Min2(mw, Min2(n, mp * 2))

\* The byte threshold of _split_with_ffmpeg's output check.
MinFileSize == 100
\* What a backend that ran to its end leaves at output_file: an empty file, a file
\* just under the ffmpeg threshold, a file at the threshold.  -1 stands for no file.
FileSizes == {0, MinFileSize - 1, MinFileSize}
\* The two ends of that range: a file every backend rejects, a file every backend
\* accepts.
PoolFileSizes == {0, MinFileSize}

\* _split_with_ffmpeg: not os.path.exists(f) or os.path.getsize(f) < 100  => failure
FfmpegOutputOk(f) == ~(f < 0 \/ f < MinFileSize)
\* _split_with_pydub: not os.path.exists(f) or os.path.getsize(f) == 0  => failure
PydubOutputOk(f) == ~(f < 0 \/ f = 0)
\* _split_with_pyav: not os.path.exists(f) or os.path.getsize(f) == 0  => failure
PyavOutputOk(f) == ~(f < 0 \/ f = 0)

\* ------------------------------------------------ output names and ordering
\* Characters are code points; a string is a sequence of them.
IsSpace(c) == c \in {9, 10, 11, 12, 13, 32}
\* \w of the re module on ASCII text: letters, digits, underscore
IsWord(c) == c \in (48..57) \cup (65..90) \cup (97..122) \cup {95}
Dot == 46
Underscore == 95

RECURSIVE LStripSpace(_)
LStripSpace(s) == IF s # <<>> /\ IsSpace(Head(s)) THEN LStripSpace(Tail(s)) ELSE s
RECURSIVE RStripSpace(_)
RStripSpace(s) ==
    IF s # <<>> /\ IsSpace(s[Len(s)]) THEN RStripSpace(SubSeq(s, 1, Len(s) - 1)) ELSE s
\* str.strip()
Strip(s) == RStripSpace(LStripSpace(s))
\* s[:n]
Prefix(s, n) == SubSeq(s, 1, Min2(Len(s), n))

\* re.sub(r'[^\w\s.-]', '', text)
RECURSIVE RemoveUnsafe(_)
RemoveUnsafe(s) ==
    IF s = <<>> THEN <<>>
    ELSE IF IsWord(Head(s)) \/ IsSpace(Head(s)) \/ Head(s) \in {46, 45}
         THEN <<Head(s)>> \o RemoveUnsafe(Tail(s))
         ELSE RemoveUnsafe(Tail(s))
\* re.sub(r'\s+', '_', text)
RECURSIVE SpacesToUnderscore(_)
SpacesToUnderscore(s) ==
    IF s = <<>> THEN <<>>
    ELSE IF IsSpace(Head(s))
         THEN <<Underscore>> \o SpacesToUnderscore(LStripSpace(s))
         ELSE <<Head(s)>> \o SpacesToUnderscore(Tail(s))
\* str.lstrip('.')
RECURSIVE LStripDot(_)
LStripDot(s) == IF s # <<>> /\ Head(s) = Dot THEN LStripDot(Tail(s)) ELSE s

SafeNameMax == 255
\* AudioUtils.make_safe_filename
make_safe_filename(text) ==
    LStripDot(Prefix(SpacesToUnderscore(RemoveUnsafe(text)), SafeNameMax))

\* str(n) for n >= 0
RECURSIVE Digits(_)
Digits(n) == IF n < 10 THEN <<48 + n>> ELSE Digits(n \div 10) \o <<48 + (n % 10)>>
RECURSIVE ZeroPad(_, _)
ZeroPad(d, w) == IF Len(d) < w THEN ZeroPad(<<48>> \o d, w) ELSE d
IndexWidth == 3
\* f"{n:03d}": at least three digits, zero padded, never truncated
Format03d(n) == ZeroPad(Digits(n), IndexWidth)

SnippetLen == 30
\* "segment_"
SegmentWord == <<115, 101, 103, 109, 101, 110, 116, 95>>
\* ".mp3": "." and options.output_format of the default SplitOptions
FormatSuffix == <<46, 109, 112, 51>>
\* split_task: segment_text = segment_opt.text.strip()[:30] if segment_opt.text
\*                            else f"segment_{idx+1}"
SegmentText(idx, text) ==
    IF text # <<>> THEN Prefix(Strip(text), SnippetLen)
    ELSE SegmentWord \o Digits(idx + 1)
\* split_task: output_filename = f"{idx+1:03d}_{safe_filename}.{options.output_format}".
\* os.path.join(output_dir, ...) puts the same directory before every name of a
\* call, so it changes neither the order nor the equality of two paths.
OutputPath(idx, text) ==
    Format03d(idx + 1) \o <<Underscore>> \o make_safe_filename(SegmentText(idx, text))
        \o FormatSuffix

\* Python's str "<": by code point, a proper prefix is smaller
RECURSIVE StrLess(_, _)
StrLess(a, b) ==
    IF b = <<>> THEN FALSE
    ELSE IF a = <<>> THEN TRUE
    ELSE IF Head(a) # Head(b) THEN Head(a) < Head(b)
    ELSE StrLess(Tail(a), Tail(b))
RECURSIVE InsertSorted(_, _)
InsertSorted(x, s) ==
    IF s = <<>> THEN <<x>>
    ELSE IF StrLess(x, Head(s)) THEN <<x>> \o s
    ELSE <<Head(s)>> \o InsertSorted(x, Tail(s))
\* sorted(output_files): stable, ascending by str "<"
RECURSIVE Sorted(_)
Sorted(s) == IF s = <<>> THEN <<>>
             ELSE InsertSorted(s[Len(s)], Sorted(SubSeq(s, 1, Len(s) - 1)))

\* =========================================================================
\* Spec: one AudioSplitter.split call
\* =========================================================================
Jobs == 0 .. (N - 1)
\* The segments of a run of Spec carry no text: the label is segment_{idx+1}.
JobPath(i) == OutputPath(i, <<>>)

\* The worker thread of a job is busy from the start of split_task to its return.
Busy(i) == pc[i] \in {"sem", "popen", "comm", "pydub", "pyav", "report"}
\* The job is inside "with FFMPEG_SEMAPHORE:".
InFfmpeg(i) == pc[i] \in {"popen", "comm"}
\* process.poll() is None: the child was spawned and has not ended yet.  A child
\* that was sent SIGKILL and not waited for is alive until the kill takes effect.
Alive(i) == proc[i] \in {"running", "killed"}
actual_workers == ActualWorkers(max_workers, N, max_ffmpeg_processes)

IdleValidate == /\ vSegs = <<>> /\ vDur = 0 /\ vIdx = 0 /\ valid_segments = <<>>
                /\ vPc = "idle"
IdleOrder == /\ oN = 0 /\ oSucc = {} /\ oText = <<>> /\ oLeft = {} /\ oFiles = <<>>
             /\ oRet = <<>> /\ oPc = "idle"
IdleExtract == /\ xSize = 0 /\ xCopy = FALSE /\ xDisk = FALSE /\ has_ffmpeg = FALSE
               /\ PYAV_AVAILABLE = FALSE /\ xOut = 0 - 1 /\ xTried = <<>>
               /\ xRet = "none" /\ xPc = "idle"
IdlePlan == /\ pSegs = <<>> /\ pOpts = [min |-> 0, max |-> 0, preserve |-> FALSE]
            /\ pIdx = 0 /\ temp_segment = <<>> /\ processed_segments = <<>>
            /\ pAgain = <<>> /\ pPc = "idle"
IdlePool == /\ wWorkersArg = 0 /\ wProcsArg = 0 /\ wN = 0 /\ wMaxWorkers = 0
            /\ wMaxProcs = 0 /\ wActual = 0 /\ wPending = 0 /\ wBusy = 0 /\ wPc = "idle"
IdleShared == /\ capA = 0 /\ capB = 0 /\ FFMPEG_SEMAPHORE = "none" /\ semFree = <<>>
              /\ secondBuilt = FALSE /\ gPc = <<>> /\ gSem = <<>>
IdleTimeout == durations = <<>> /\ timeout_seconds = <<>>
IdleProgress ==
    /\ cbMode = "none" /\ cbBatch = 0 /\ cbTotal = 0
    /\ cbMonitor = [current |-> 0, success |-> 0, failed |-> 0]
    /\ cbPc = <<>> /\ cbSnap = <<>> /\ cbCounter = <<>> /\ cbSeen = <<>>
IdleBatch ==
    /\ bTexts = <<>> /\ batch_size = 0 /\ batch_idx = 0 /\ bAssigned = <<>>
    /\ all_output_files = <<>> /\ bRet = <<>> /\ bPc = "idle"
IdleSplit ==
    /\ N = 0 /\ source_mb = 0 /\ max_workers = 2 /\ max_ffmpeg_processes = 2
    /\ ffmpeg_available = FALSE /\ pyav_usable = FALSE
    /\ sem = 2 /\ active_processes = {}
    /\ pc = <<>> /\ proc = <<>> /\ sigs = <<>> /\ tried = <<>> /\ timedOut = <<>>
    /\ file_sizes = {} /\ outFile = <<>> /\ result = <<>>
    /\ progress_monitor = [current |-> 0, success |-> 0, failed |-> 0]
    /\ output_files = <<>> /\ splitPc = "idle" /\ ret = <<>> /\ outcome = "none"

\* AudioSplitter.__init__ followed by the head of split up to the validated list:
\* the constructor clamps its arguments and creates the semaphore with
\* max_ffmpeg_processes units; N segments passed the validation.
InitSplit(counts, sizes) ==
    /\ N \in counts
    /\ file_sizes = sizes
    /\ \E mw \in 1 .. MaxWorkersArg : max_workers = ClampWorkers(mw)
    /\ \E mp \in 1 .. MaxProcsArg : max_ffmpeg_processes = ClampProcs(mp)
    /\ ffmpeg_available \in BOOLEAN
    /\ pyav_usable \in BOOLEAN
    /\ sem = max_ffmpeg_processes
    /\ active_processes = {}
    /\ pc = [i \in Jobs |-> "pending"]
    /\ proc = [i \in Jobs |-> "none"]
    /\ sigs = [i \in Jobs |-> <<>>]
    /\ tried = [i \in Jobs |-> <<>>]
    /\ timedOut = [i \in Jobs |-> FALSE]
    /\ outFile = [i \in Jobs |-> -1]
    /\ result = [i \in Jobs |-> "none"]
    /\ progress_monitor = [current |-> 0, success |-> 0, failed |-> 0]
    /\ output_files = <<>>
    /\ splitPc = "start"
    /\ ret = <<>>
    /\ outcome = "none"
    /\ IdleValidate
    /\ IdleOrder
    /\ IdleExtract
    /\ IdlePlan
    /\ IdlePool
    /\ IdleShared
    /\ IdleTimeout
    /\ IdleProgress
    /\ IdleBatch

\* AudioProcessorAdapter.__init__: the default of self.memory_limit_mb.
memory_limit_mb == 512
\* AudioProcessorAdapter.split_audio: large_file = file_size_mb > self.memory_limit_mb
large_file(mb) == mb > memory_limit_mb
\* A source far below the limit, and one above the highest value the limit can
\* be configured to (1024).
SmallSourceMb == 1
LargeSourceMb == 1025

\* Batches of up to MaxSegs segments cut from a small source.
Init == InitSplit(0 .. MaxSegs, PoolFileSizes) /\ source_mb = SmallSourceMb

\* _terminate_active_processes: every tracked child that is still running gets
\* terminate(), then wait(timeout=2); it either ends in the grace period or is
\* killed.  The list is emptied.
Terminated(p) ==
    /\ active_processes' = {}
    /\ \E how \in [active_processes -> {"exits", "killed"}] :
         /\ proc' = [i \in Jobs |->
                IF i \in active_processes /\ p[i] = "running"
                THEN (IF how[i] = "exits" THEN "exited" ELSE "killed")
                ELSE p[i]]
         /\ sigs' = [i \in Jobs |->
                IF i \in active_processes /\ p[i] = "running"
                THEN (IF how[i] = "exits" THEN sigs[i] \o <<"terminate">>
                      ELSE sigs[i] \o <<"terminate", "kill">>)
                ELSE sigs[i]]

\* split returns `files`; the finally block runs _terminate_active_processes.
Finish(files) ==
    /\ ret' = files
    /\ outcome' = "returned"
    /\ splitPc' = "done"
    /\ Terminated(proc)

\* AudioUtils.get_audio_info raises (no probe yields a duration): the handler of
\* split logs and returns [].
ProbeRaises ==
    /\ splitPc = "start"
    /\ Finish(<<>>)
    /\ UNCHANGED <<N, source_mb, max_workers, max_ffmpeg_processes, ffmpeg_available, pyav_usable,
                   file_sizes,
                   sem, pc, tried, timedOut, outFile, result, progress_monitor,
                   output_files>>
    /\ UNCHANGED notSplitVars

\* "if not valid_segments: return []", otherwise the pool is created and every
\* job is submitted.
BeginSplit ==
    /\ splitPc = "start"
    /\ IF N = 0
       THEN Finish(<<>>)
       ELSE /\ splitPc' = "pool"
            /\ UNCHANGED <<ret, outcome, active_processes, proc, sigs>>
    /\ UNCHANGED <<N, source_mb, max_workers, max_ffmpeg_processes, ffmpeg_available, pyav_usable,
                   file_sizes,
                   sem, pc, tried, timedOut, outFile, result, progress_monitor,
                   output_files>>
    /\ UNCHANGED notSplitVars

\* A pool thread takes the next job of the queue (jobs are queued in index order)
\* and runs split_task up to the first backend of _split_segment.
Start(i) ==
    /\ splitPc = "pool"
    /\ pc[i] = "pending"
    /\ \A j \in Jobs : j < i => pc[j] # "pending"
    /\ Cardinality({j \in Jobs : Busy(j)}) < actual_workers
    /\ pc' = [pc EXCEPT ![i] = IF ffmpeg_available THEN "sem" ELSE "pydub"]
    /\ UNCHANGED <<N, source_mb, max_workers, max_ffmpeg_processes, ffmpeg_available, pyav_usable,
                   file_sizes,
                   sem, active_processes, proc, sigs, tried, timedOut, outFile, result,
                   progress_monitor, output_files, splitPc, ret, outcome>>
    /\ UNCHANGED notSplitVars

\* "with FFMPEG_SEMAPHORE:" entered: one unit taken, blocking while none is free.
Acquire(i) ==
    /\ pc[i] = "sem"
    /\ sem > 0
    /\ sem' = sem - 1
    /\ pc' = [pc EXCEPT ![i] = "popen"]
    /\ UNCHANGED <<N, source_mb, max_workers, max_ffmpeg_processes, ffmpeg_available, pyav_usable,
                   file_sizes,
                   active_processes, proc, sigs, tried, timedOut, outFile, result,
                   progress_monitor, output_files, splitPc, ret, outcome>>
    /\ UNCHANGED notSplitVars

\* Mutant of AfterFfmpegFails: a failed subprocess attempt ends the job.
MutAfterFfmpegFails == "report"
\* Mutant of AfterFfmpegFails: PyAV comes right after ffmpeg.
MutAfterFfmpegFailsPyavNext == "pyav"
\* The job's next step once _split_with_ffmpeg / _split_with_pydub returned False.
AfterFfmpegFails == "pydub"
\* Mutant of AfterPydubFails: PyAV is never tried.
MutAfterPydubFailsGivesUp == "report"
AfterPydubFails == IF pyav_usable THEN "pyav" ELSE "report"

\* subprocess.Popen succeeds: the child runs and is appended to _active_processes.
PopenOk(i) ==
    /\ pc[i] = "popen"
    /\ proc' = [proc EXCEPT ![i] = "running"]
    /\ active_processes' = active_processes \cup {i}
    /\ tried' = [tried EXCEPT ![i] = @ \o <<"ffmpeg">>]
    /\ pc' = [pc EXCEPT ![i] = "comm"]
    /\ UNCHANGED <<N, source_mb, max_workers, max_ffmpeg_processes, ffmpeg_available, pyav_usable,
                   file_sizes,
                   sem, sigs, timedOut, outFile, result, progress_monitor, output_files,
                   splitPc, ret, outcome>>
    /\ UNCHANGED notSplitVars

\* subprocess.Popen raises (OSError): the with block releases the unit, the outer
\* handler of _split_with_ffmpeg returns False.
PopenRaises(i) ==
    /\ pc[i] = "popen"
    /\ sem' = sem + 1
    /\ tried' = [tried EXCEPT ![i] = @ \o <<"ffmpeg">>]
    /\ pc' = [pc EXCEPT ![i] = AfterFfmpegFails]
    /\ UNCHANGED <<N, source_mb, max_workers, max_ffmpeg_processes, ffmpeg_available, pyav_usable,
                   file_sizes,
                   active_processes, proc, sigs, timedOut, outFile, result,
                   progress_monitor, output_files, splitPc, ret, outcome>>
    /\ UNCHANGED notSplitVars

\* A child that was sent SIGKILL is gone.
ProcDies(i) ==
    /\ proc[i] = "killed"
    /\ proc' = [proc EXCEPT ![i] = "dead"]
    /\ UNCHANGED <<N, source_mb, max_workers, max_ffmpeg_processes, ffmpeg_available, pyav_usable,
                   file_sizes,
                   sem, active_processes, pc, sigs, tried, timedOut, outFile, result,
                   progress_monitor, output_files, splitPc, ret, outcome>>
    /\ UNCHANGED notSplitVars

\* The ffmpeg child ends by itself, with exit code 0 and whatever it wrote or
\* with a non-zero exit code, and process.communicate returns: the finally block
\* untracks the child, the with block releases the unit; a non-zero return code
\* is a failure, otherwise the output file is checked.
CommReturns(i) ==
    /\ pc[i] = "comm"
    /\ proc[i] = "running"
    /\ proc' = [proc EXCEPT ![i] = "exited"]
    /\ active_processes' = active_processes \ {i}
    /\ sem' = sem + 1
    /\ \/ \E f \in file_sizes :
            /\ outFile' = [outFile EXCEPT ![i] = f]
            /\ IF FfmpegOutputOk(f)
               THEN /\ result' = [result EXCEPT ![i] = "ok"]
                    /\ pc' = [pc EXCEPT ![i] = "report"]
               ELSE /\ pc' = [pc EXCEPT ![i] = AfterFfmpegFails]
                    /\ UNCHANGED result
       \/ /\ pc' = [pc EXCEPT ![i] = AfterFfmpegFails]
          /\ UNCHANGED <<outFile, result>>
    /\ UNCHANGED <<N, source_mb, max_workers, max_ffmpeg_processes, ffmpeg_available, pyav_usable,
                   file_sizes,
                   sigs, tried, timedOut, progress_monitor, output_files,
                   splitPc, ret, outcome>>
    /\ UNCHANGED notSplitVars

\* Mutant of CommTimesOut: the timeout path keeps its semaphore unit.
MutCommTimesOutKeepsUnit(i) ==
    /\ pc[i] = "comm"
    /\ proc[i] = "running"
    /\ proc' = [proc EXCEPT ![i] = "killed"]
    /\ sigs' = [sigs EXCEPT ![i] = @ \o <<"kill">>]
    /\ timedOut' = [timedOut EXCEPT ![i] = TRUE]
    /\ active_processes' = active_processes \ {i}
    /\ pc' = [pc EXCEPT ![i] = AfterFfmpegFails]
    /\ UNCHANGED <<N, source_mb, max_workers, max_ffmpeg_processes, ffmpeg_available, pyav_usable,
                   file_sizes, sem, tried, outFile, result, progress_monitor,
                   output_files, splitPc, ret, outcome>>
    /\ UNCHANGED notSplitVars

\* Mutant of CommTimesOut: the timeout path terminates before it kills.
MutCommTimesOutGraceful(i) ==
    /\ pc[i] = "comm"
    /\ proc[i] = "running"
    /\ proc' = [proc EXCEPT ![i] = "killed"]
    /\ sigs' = [sigs EXCEPT ![i] = @ \o <<"terminate", "kill">>]
    /\ timedOut' = [timedOut EXCEPT ![i] = TRUE]
    /\ active_processes' = active_processes \ {i}
    /\ sem' = sem + 1
    /\ pc' = [pc EXCEPT ![i] = AfterFfmpegFails]
    /\ UNCHANGED <<N, source_mb, max_workers, max_ffmpeg_processes, ffmpeg_available, pyav_usable,
                   file_sizes, tried, outFile, result, progress_monitor, output_files,
                   splitPc, ret, outcome>>
    /\ UNCHANGED notSplitVars

\* process.communicate raises TimeoutExpired: process.kill() and return False, with
\* no wait; the finally block untracks the child, the with block releases the unit.
CommTimesOut(i) ==
    /\ pc[i] = "comm"
    /\ proc[i] = "running"
    /\ proc' = [proc EXCEPT ![i] = "killed"]
    /\ sigs' = [sigs EXCEPT ![i] = @ \o <<"kill">>]
    /\ timedOut' = [timedOut EXCEPT ![i] = TRUE]
    /\ active_processes' = active_processes \ {i}
    /\ sem' = sem + 1
    /\ pc' = [pc EXCEPT ![i] = AfterFfmpegFails]
    /\ UNCHANGED <<N, source_mb, max_workers, max_ffmpeg_processes, ffmpeg_available, pyav_usable,
                   file_sizes,
                   tried, outFile, result, progress_monitor, output_files, splitPc, ret,
                   outcome>>
    /\ UNCHANGED notSplitVars

\* _split_with_pydub: load, slice or export raises (False), or export writes a
\* file that is then checked.
Pydub(i) ==
    /\ pc[i] = "pydub"
    /\ tried' = [tried EXCEPT ![i] = @ \o <<"pydub">>]
    /\ \/ \E f \in file_sizes :
            /\ outFile' = [outFile EXCEPT ![i] = f]
            /\ IF PydubOutputOk(f)
               THEN /\ result' = [result EXCEPT ![i] = "ok"]
                    /\ pc' = [pc EXCEPT ![i] = "report"]
               ELSE /\ result' = [result EXCEPT ![i] = IF pyav_usable THEN @ ELSE "fail"]
                    /\ pc' = [pc EXCEPT ![i] = AfterPydubFails]
       \/ /\ UNCHANGED outFile
          /\ result' = [result EXCEPT ![i] = IF pyav_usable THEN @ ELSE "fail"]
          /\ pc' = [pc EXCEPT ![i] = AfterPydubFails]
    /\ UNCHANGED <<N, source_mb, max_workers, max_ffmpeg_processes, ffmpeg_available, pyav_usable,
                   file_sizes,
                   sem, active_processes, proc, sigs, timedOut, progress_monitor,
                   output_files, splitPc, ret, outcome>>
    /\ UNCHANGED notSplitVars

\* _split_with_pyav, the last backend of _split_segment: it raises (False), or
\* writes a file that is then checked.
Pyav(i) ==
    /\ pc[i] = "pyav"
    /\ tried' = [tried EXCEPT ![i] = @ \o <<"pyav">>]
    /\ \/ \E f \in file_sizes :
            /\ outFile' = [outFile EXCEPT ![i] = f]
            /\ result' = [result EXCEPT ![i] = IF PyavOutputOk(f) THEN "ok" ELSE "fail"]
       \/ /\ UNCHANGED outFile
          /\ result' = [result EXCEPT ![i] = "fail"]
    /\ pc' = [pc EXCEPT ![i] = "report"]
    /\ UNCHANGED <<N, source_mb, max_workers, max_ffmpeg_processes, ffmpeg_available, pyav_usable,
                   file_sizes,
                   sem, active_processes, proc, sigs, timedOut, progress_monitor,
                   output_files, splitPc, ret, outcome>>
    /\ UNCHANGED notSplitVars

\* Mutant of Report: a job whose segment failed is queued again.
MutReportRequeuesFailed(i) ==
    /\ pc[i] = "report"
    /\ progress_monitor' =
         [current |-> progress_monitor.current + 1,
          success |-> progress_monitor.success + (IF result[i] = "ok" THEN 1 ELSE 0),
          failed  |-> progress_monitor.failed + (IF result[i] = "ok" THEN 0 ELSE 1)]
    /\ pc' = [pc EXCEPT ![i] = IF result[i] = "ok" THEN "returned" ELSE "pending"]
    /\ UNCHANGED <<N, source_mb, max_workers, max_ffmpeg_processes, ffmpeg_available, pyav_usable,
                   file_sizes,
                   sem, active_processes, proc, sigs, tried, timedOut, outFile, result,
                   output_files, splitPc, ret, outcome>>
    /\ UNCHANGED notSplitVars
\* split_task after _split_segment: the counters are updated under the lock, the
\* callback is called, the task returns the path or None.
Report(i) ==
    /\ pc[i] = "report"
    /\ progress_monitor' =
         [current |-> progress_monitor.current + 1,
          success |-> progress_monitor.success + (IF result[i] = "ok" THEN 1 ELSE 0),
          failed  |-> progress_monitor.failed + (IF result[i] = "ok" THEN 0 ELSE 1)]
    /\ pc' = [pc EXCEPT ![i] = "returned"]
    /\ UNCHANGED <<N, source_mb, max_workers, max_ffmpeg_processes, ffmpeg_available, pyav_usable,
                   file_sizes,
                   sem, active_processes, proc, sigs, tried, timedOut, outFile, result,
                   output_files, splitPc, ret, outcome>>
    /\ UNCHANGED notSplitVars

\* Mutant of Collect: the path of a failed task is appended too.
MutCollectAppendsFailed(i) ==
    /\ splitPc = "pool"
    /\ \A j \in Jobs : pc[j] \in {"returned", "collected"}
    /\ pc[i] = "returned"
    /\ output_files' = Append(output_files, JobPath(i))
    /\ pc' = [pc EXCEPT ![i] = "collected"]
    /\ UNCHANGED <<N, source_mb, max_workers, max_ffmpeg_processes, ffmpeg_available, pyav_usable,
                   file_sizes, sem, active_processes, proc, sigs, tried, timedOut,
                   outFile, result, progress_monitor, splitPc, ret, outcome>>
    /\ UNCHANGED notSplitVars

\* The as_completed loop of split yields a finished future: its path, when it has
\* one, is appended to output_files.  The futures that are finished are yielded in
\* any order.  The loop touches nothing but output_files, which no worker reads,
\* so its steps are taken once every task has returned: the lists it can build
\* are the same as when it runs beside the workers.
Collect(i) ==
    /\ splitPc = "pool"
    /\ \A j \in Jobs : pc[j] \in {"returned", "collected"}
    /\ pc[i] = "returned"
    /\ output_files' = IF result[i] = "ok" THEN Append(output_files, JobPath(i))
                       ELSE output_files
    /\ pc' = [pc EXCEPT ![i] = "collected"]
    /\ UNCHANGED <<N, source_mb, max_workers, max_ffmpeg_processes, ffmpeg_available, pyav_usable,
                   file_sizes,
                   sem, active_processes, proc, sigs, tried, timedOut, outFile, result,
                   progress_monitor, splitPc, ret, outcome>>
    /\ UNCHANGED notSplitVars

\* Mutant of Return: the first path only is returned.
MutReturnFirstOnly ==
    /\ splitPc = "pool"
    /\ \A i \in Jobs : pc[i] = "collected"
    /\ Finish(Prefix(Sorted(output_files), 1))
    /\ UNCHANGED <<N, source_mb, max_workers, max_ffmpeg_processes, ffmpeg_available, pyav_usable,
                   file_sizes, sem, pc, tried, timedOut, outFile, result,
                   progress_monitor, output_files>>
    /\ UNCHANGED notSplitVars

\* All futures were yielded and the pool is shut down: return sorted(output_files).
Return ==
    /\ splitPc = "pool"
    /\ \A i \in Jobs : pc[i] = "collected"
    /\ Finish(Sorted(output_files))
    /\ UNCHANGED <<N, source_mb, max_workers, max_ffmpeg_processes, ffmpeg_available, pyav_usable,
                   file_sizes,
                   sem, pc, tried, timedOut, outFile, result, progress_monitor,
                   output_files>>
    /\ UNCHANGED notSplitVars

Next ==
    \/ ProbeRaises
    \/ BeginSplit
    \/ \E i \in Jobs : Start(i)
    \/ \E i \in Jobs : Acquire(i)
    \/ \E i \in Jobs : PopenOk(i)
    \/ \E i \in Jobs : PopenRaises(i)
    \/ \E i \in Jobs : ProcDies(i)
    \/ \E i \in Jobs : CommReturns(i)
    \/ \E i \in Jobs : CommTimesOut(i)
    \/ \E i \in Jobs : Pydub(i)
    \/ \E i \in Jobs : Pyav(i)
    \/ \E i \in Jobs : Report(i)
    \/ \E i \in Jobs : Collect(i)
    \/ Return

Spec == Init /\ [][Next]_vars

\* One job, with every file size a backend can leave: the backend chain of
\* _split_segment in full.
InitEncode == InitSplit({1}, FileSizes) /\ source_mb = SmallSourceMb
SpecEncode == InitEncode /\ [][Next]_vars

\* Batches of one or two segments cut from a large source.
LargeCounts == 1 .. 2
InitLarge == InitSplit(LargeCounts, PoolFileSizes) /\ source_mb = LargeSourceMb
SpecLarge == InitLarge /\ [][Next]_vars

\* Batches of up to LiveSegs segments, every thread being scheduled again and
\* again: a step that stays possible is eventually taken.  communicate returns
\* or raises TimeoutExpired within timeout_seconds, the library calls of the other
\* backends return or raise.
LiveSegs == 2
InitLive == InitSplit(0 .. LiveSegs, PoolFileSizes) /\ source_mb = SmallSourceMb
SpecLive == InitLive /\ [][Next]_vars /\ WF_vars(Next)

\* =========================================================================
\* Properties of Spec, SpecEncode and SpecLarge
\* =========================================================================
Range(s) == {s[k] : k \in 1 .. Len(s)}
Succeeded == {i \in Jobs : result[i] = "ok"}
Failed == {i \in Jobs : result[i] = "fail"}
Finished(i) == pc[i] \in {"returned", "collected"}

\* C1: at no moment are more ffmpeg child processes alive than the semaphore
\* has units (max_ffmpeg_processes).
C1_AliveWithinCapacity ==
    Cardinality({i \in Jobs : Alive(i)}) <= max_ffmpeg_processes

\* C2: the units taken from the semaphore are at every moment as many as the
\* jobs inside a subprocess attempt (so a job in pydub or PyAV holds none), a
\* child is only spawned by a job that holds a unit, and when split has
\* returned every unit is free again.
C2_UnitsMatchAttempts ==
    /\ max_ffmpeg_processes - sem = Cardinality({i \in Jobs : InFfmpeg(i)})
    /\ sem >= 0
    /\ \A i \in Jobs : proc[i] = "running" => InFfmpeg(i)
    /\ splitPc = "done" => sem = max_ffmpeg_processes
\* Both units are held and a third worker waits for one.
C2_Witness ==
    /\ sem = 0
    /\ \E i \in Jobs : pc[i] = "sem"
    /\ \E j \in Jobs : timedOut[j] = FALSE /\ pc[j] = "comm"

\* C4: when some jobs failed and at least one succeeded, split returns a list
\* (it raises nothing) that holds exactly the paths of the succeeded jobs, each
\* once, and every job of the batch was run.
C4_PartialFailureReturnsSucceeded ==
    (splitPc = "done" /\ Succeeded # {} /\ Failed # {}) =>
        /\ outcome = "returned"
        /\ Range(ret) = {JobPath(i) : i \in Succeeded}
        /\ Len(ret) = Cardinality(Succeeded)
        /\ \A i \in Jobs : tried[i] # <<>> /\ Finished(i)
C4_Witness ==
    /\ splitPc = "done"
    /\ Cardinality(Succeeded) = 2
    /\ Cardinality(Failed) = 1

\* C5 as stated: when no job succeeded, split raises instead of returning a list.
C5_RaisesWhenNothingSucceeded ==
    (splitPc = "done" /\ (N = 0 \/ Failed = Jobs)) => outcome = "raised"
\* C5 amended: when no job succeeded (every job failed, no segment was valid, or
\* the probe raised) split returns the empty list and raises nothing.
C5_EmptyListWhenNothingSucceeded ==
    (splitPc = "done" /\ Succeeded = {}) => (outcome = "returned" /\ ret = <<>>)
C5_Witness ==
    /\ splitPc = "done"
    /\ N = MaxSegs
    /\ Failed = Jobs
    /\ ret = <<>>

\* C6 as stated: a job whose ffmpeg timed out ends failed with no further
\* backend attempt.
C6_TimeoutEndsJob ==
    \A i \in Jobs :
        (timedOut[i] /\ Finished(i)) => (result[i] = "fail" /\ tried[i] = <<"ffmpeg">>)
\* C6 amended: after a timeout ffmpeg is not run again for the job, but pydub
\* and then PyAV (when usable) are still attempted; the job fails only when they
\* fail too, and then its path is not in the result; the paths of the jobs that
\* succeeded, the timed-out one included, are in the result.
C6_TimeoutFallsBack ==
    \A i \in Jobs : timedOut[i] =>
        /\ Cardinality({k \in 1 .. Len(tried[i]) : tried[i][k] = "ffmpeg"}) = 1
        /\ pc[i] \in {"report", "returned", "collected"} =>
              /\ Len(tried[i]) >= 2 /\ tried[i][2] = "pydub"
              /\ result[i] = "fail" =>
                    tried[i] = (IF pyav_usable THEN <<"ffmpeg", "pydub", "pyav">>
                                ELSE <<"ffmpeg", "pydub">>)
        /\ splitPc = "done" =>
              /\ (JobPath(i) \in Range(ret)) = (result[i] = "ok")
              /\ \A j \in Succeeded : JobPath(j) \in Range(ret)
C6_Witness ==
    /\ splitPc = "done"
    /\ \E i \in Jobs : timedOut[i] /\ result[i] = "ok" /\ JobPath(i) \in Range(ret)
    /\ \E j \in Jobs : timedOut[j] /\ result[j] = "fail"

\* C7 as stated: a kill is always preceded by a terminate of the same process.
C7_KillAfterTerminate ==
    \A i \in Jobs : \A k \in 1 .. Len(sigs[i]) :
        sigs[i][k] = "kill" => \E m \in 1 .. (k - 1) : sigs[i][m] = "terminate"
\* C7 amended: on timeout the child gets one kill and nothing else, no terminate
\* and no grace period; a child that did not time out is only ever killed by
\* _terminate_active_processes, right after its terminate.
C7_TimeoutKillsAtOnce ==
    \A i \in Jobs :
        /\ timedOut[i] => sigs[i] = <<"kill">>
        /\ ~timedOut[i] =>
              \A k \in 1 .. Len(sigs[i]) :
                  sigs[i][k] = "kill" => (k > 1 /\ sigs[i][k - 1] = "terminate")
C7_Witness ==
    \E i \in Jobs : timedOut[i] /\ proc[i] = "dead" /\ sigs[i] = <<"kill">>

\* C8: a child is never untracked while it is alive, and once split has
\* returned no child is alive and none is tracked.
C8_NoLiveChildUntracked ==
    /\ \A i \in Jobs : Alive(i) => i \in active_processes
    /\ splitPc = "done" => (active_processes = {} /\ \A i \in Jobs : ~Alive(i))

\* C9: a job is reported successful only with an output file that exists and
\* has at least the threshold size, whichever backend wrote it.
C9_SuccessMeansThresholdSize ==
    \A i \in Jobs : result[i] = "ok" => (outFile[i] >= 0 /\ outFile[i] >= MinFileSize)

\* C12: for a source above the large-file limit no job ever runs the pydub
\* backend (whole-file load and slice), whatever the number of segments and
\* whatever became of the job's ffmpeg attempt.
C12_LargeSourceNeverPydub ==
    large_file(source_mb) =>
        \A i \in Jobs : \A k \in 1 .. Len(tried[i]) : tried[i][k] # "pydub"

\* The backends that apply to a job of this run, in the order of _split_segment.
SplitChain ==
    (IF ffmpeg_available THEN <<"ffmpeg">> ELSE <<>>) \o <<"pydub">>
        \o (IF pyav_usable THEN <<"pyav">> ELSE <<>>)
\* The job is inside _split_segment, at or before a backend.
InBackend(i) == pc[i] \in {"sem", "popen", "comm", "pydub", "pyav"}

\* C21: a job whose backend failed (an output rejected by the size check after
\* the backend ended well included) goes on to the next applicable backend; it
\* succeeds as soon as one output passes, with no backend attempted after that;
\* it fails only when every applicable backend was attempted; a job that left
\* _split_segment has succeeded or failed.
C21_FallsThroughUntilSuccess ==
    \A i \in Jobs :
        /\ result[i] = "ok" =>
              /\ ~InBackend(i)
              /\ tried[i] # <<>>
              /\ (tried[i][Len(tried[i])] = "ffmpeg" => FfmpegOutputOk(outFile[i]))
              /\ (tried[i][Len(tried[i])] = "pydub" => PydubOutputOk(outFile[i]))
              /\ (tried[i][Len(tried[i])] = "pyav" => PyavOutputOk(outFile[i]))
        /\ result[i] = "fail" => (~InBackend(i) /\ Len(tried[i]) = Len(SplitChain))
        /\ (InBackend(i) /\ tried[i] # <<>>) => result[i] = "none"
        /\ pc[i] \in {"report", "returned", "collected"} => result[i] \in {"ok", "fail"}
\* ffmpeg ran to its end and was not accepted, pydub was not accepted either,
\* PyAV succeeded.
C21_Witness ==
    \E i \in Jobs :
        /\ tried[i] = <<"ffmpeg", "pydub", "pyav">>
        /\ proc[i] = "exited" /\ ~timedOut[i]
        /\ result[i] = "ok"

\* C22 as stated: the backends of a job are attempted in the order in-process
\* library (PyAV), subprocess (ffmpeg), whole-file load (pydub).
C22_LibraryFirstOrder ==
    \A i \in Jobs : \A k, m \in 1 .. Len(tried[i]) :
        k < m => <<tried[i][k], tried[i][m]>> \in
                    {<<"pyav", "ffmpeg">>, <<"pyav", "pydub">>, <<"ffmpeg", "pydub">>}
\* C22 amended: the backends of a job are attempted in the order subprocess
\* (ffmpeg, when available), whole-file load (pydub), in-process library (PyAV,
\* when usable): what was attempted so far is always the head of that chain.
C22_SubprocessFirstOrder ==
    \A i \in Jobs :
        /\ Len(tried[i]) <= Len(SplitChain)
        /\ tried[i] = SubSeq(SplitChain, 1, Len(tried[i]))
\* All three backends were attempted and the job failed.
C22_Witness ==
    \E i \in Jobs : tried[i] = <<"ffmpeg", "pydub", "pyav">> /\ result[i] = "fail"

\* =========================================================================
\* SpecValidate: the validation loop of split
\* =========================================================================
Times == (0 - 1) .. MaxTime
RawSegments == [start : Times, end : Times]
RawLists == UNION {[1 .. n -> RawSegments] : n \in 1 .. MaxRawSegs}
\* AudioUtils.get_audio_info: the duration of a wav comes from its frame count and
\* that of other files from pydub or ffprobe; it is 0 for a file without frames.
Durations == 0 .. MaxTime

InitValidate ==
    /\ vSegs \in RawLists
    /\ vDur \in Durations
    /\ vIdx = 1
    /\ valid_segments = <<>>
    /\ vPc = "loop"
    /\ IdleSplit
    /\ IdleOrder
    /\ IdleExtract
    /\ IdlePlan
    /\ IdlePool
    /\ IdleShared
    /\ IdleTimeout
    /\ IdleProgress
    /\ IdleBatch

\* Mutant of KeepsSegment: a segment of zero length is kept.
MutKeepsSegmentZeroLength(seg, dur) ==
    /\ ~(seg.end < seg.start)
    /\ ~(dur > 0 /\ seg.start >= dur)
\* One pass of "for idx, segment in enumerate(segment_options_list)": whether the
\* segment is kept.
KeepsSegment(seg, dur) ==
    /\ ~(seg.end <= seg.start)
    /\ ~(dur > 0 /\ seg.start >= dur)
\* "segment.end = audio_duration" for a kept segment that ends after the audio.
Clipped(seg, dur) ==
    IF dur > 0 /\ seg.end > dur THEN [seg EXCEPT !.end = dur] ELSE seg

\* One pass of the loop.  The clip assigns to the caller's segment object, which
\* is the object appended to valid_segments.
ValidateSegment ==
    /\ vPc = "loop"
    /\ vIdx <= Len(vSegs)
    /\ IF KeepsSegment(vSegs[vIdx], vDur)
       THEN /\ vSegs' = [vSegs EXCEPT ![vIdx] = Clipped(@, vDur)]
            /\ valid_segments' = Append(valid_segments, Clipped(vSegs[vIdx], vDur))
       ELSE UNCHANGED <<vSegs, valid_segments>>
    /\ vIdx' = vIdx + 1
    /\ UNCHANGED <<vDur, vPc>>
    /\ UNCHANGED notValVars

\* The loop is over: one job per element of valid_segments is created (or split
\* returns [] when there is none).
ValidateDone ==
    /\ vPc = "loop"
    /\ vIdx > Len(vSegs)
    /\ vPc' = "done"
    /\ UNCHANGED <<vSegs, vDur, vIdx, valid_segments>>
    /\ UNCHANGED notValVars

NextValidate == ValidateSegment \/ ValidateDone
SpecValidate == InitValidate /\ [][NextValidate]_vars

\* C10: every segment a job is created for satisfies 0 <= start < end <= duration.
C10_JobSegmentsInRange ==
    \A k \in 1 .. Len(valid_segments) :
        /\ 0 <= valid_segments[k].start
        /\ valid_segments[k].start < valid_segments[k].end
        /\ valid_segments[k].end <= vDur

\* The raw segments that end at or before their start, and those that are well
\* formed but start at or after the end of the audio.  A clip only ever moves
\* the end of a kept segment down to a duration its start is below, so it moves
\* no segment into or out of either set.
Inverted == {k \in 1 .. Len(vSegs) : vSegs[k].end <= vSegs[k].start}
BeyondAudio == {k \in 1 .. Len(vSegs) :
                   /\ vSegs[k].end > vSegs[k].start
                   /\ vDur > 0 /\ vSegs[k].start >= vDur}

\* C11 as stated: no job is created for a segment with end <= start, and the
\* segments with end <= start are as many as the raw segments minus the valid ones.
C11_ExcludedAreTheInverted ==
    vPc = "done" =>
        /\ \A k \in 1 .. Len(valid_segments) :
              valid_segments[k].end > valid_segments[k].start
        /\ Cardinality(Inverted) = Len(vSegs) - Len(valid_segments)
\* C11 amended: no job is created for a segment with end <= start; the raw
\* segments minus the valid ones are the segments with end <= start together with
\* the well-formed segments that start at or after a positive probed duration.
C11_ExcludedAreInvertedOrBeyond ==
    vPc = "done" =>
        /\ \A k \in 1 .. Len(valid_segments) :
              valid_segments[k].end > valid_segments[k].start
        /\ Cardinality(Inverted) + Cardinality(BeyondAudio)
              = Len(vSegs) - Len(valid_segments)
\* Of two raw segments one is dropped for end <= start and the other is kept.
C11_Witness ==
    /\ vPc = "done"
    /\ Len(vSegs) = MaxRawSegs
    /\ Cardinality(Inverted) = 1
    /\ Len(valid_segments) = 1

\* C24: split never changes the caller's segment list: no step of the
\* validation changes the start, end or place of an input segment.
C24_InputSegmentsUnchanged == [][vSegs' = vSegs]_vars

\* =========================================================================
\* SpecOrder: names, collection and final sort of the output paths
\* =========================================================================
\* The batch has MaxSegs or BigBatch segments.  The jobs that succeed are among
\* the first three, the hundredth and the last; every other job fails and
\* contributes nothing to output_files.
OrderCounts == {MaxSegs, BigBatch}
Watched(n) == {0, 1, 2, 99, n - 1} \cap (0 .. (n - 1))
\* "" and "0 a"
Texts == {<<>>, <<48, 32, 97>>}

InitOrder ==
    /\ oN \in OrderCounts
    /\ oSucc \in SUBSET Watched(oN)
    /\ oText \in [oSucc -> Texts]
    /\ oLeft = oSucc
    /\ oFiles = <<>>
    /\ oRet = <<>>
    /\ oPc = "collect"
    /\ IdleSplit
    /\ IdleValidate
    /\ IdleExtract
    /\ IdlePlan
    /\ IdlePool
    /\ IdleShared
    /\ IdleTimeout
    /\ IdleProgress
    /\ IdleBatch

\* as_completed yields the future of a succeeded job, in any order: the path
\* split_task built for it is appended to output_files.
OCollect(i) ==
    /\ oPc = "collect"
    /\ i \in oLeft
    /\ oFiles' = Append(oFiles, OutputPath(i, oText[i]))
    /\ oLeft' = oLeft \ {i}
    /\ UNCHANGED <<oN, oSucc, oText, oRet, oPc>>
    /\ UNCHANGED notOrdVars

\* return sorted(output_files)
OReturn ==
    /\ oPc = "collect"
    /\ oLeft = {}
    /\ oRet' = Sorted(oFiles)
    /\ oPc' = "done"
    /\ UNCHANGED <<oN, oSucc, oText, oLeft, oFiles>>
    /\ UNCHANGED notOrdVars

NextOrder == (\E i \in oSucc : OCollect(i)) \/ OReturn
SpecOrder == InitOrder /\ [][NextOrder]_vars

\* The place of a path in the returned list.
PlaceOf(p) == CHOOSE k \in 1 .. Len(oRet) : oRet[k] = p
\* C3: the returned list is in segment order: the path of segment i comes before
\* the path of segment j whenever i < j and both jobs succeeded.
C3_ResultInSegmentOrder ==
    oPc = "done" =>
        \A i, j \in oSucc :
            i < j => PlaceOf(OutputPath(i, oText[i])) < PlaceOf(OutputPath(j, oText[j]))

\* =========================================================================
\* SpecExtract: one AudioConverter.extract_audio call
\* =========================================================================
\* extract_audio: is_large_file = file_size_mb > 100, with
\* file_size_mb = os.path.getsize(file_path) / (1024 * 1024)
LargeFileMb == 100
BytesPerMb == 1048576
is_large_file(bytes) == bytes > LargeFileMb * BytesPerMb

\* The input: missing, empty, one byte, exactly 100 MB, one byte more.
InputSizes == {0 - 1, 0, 1, LargeFileMb * BytesPerMb, LargeFileMb * BytesPerMb + 1}
\* What a backend leaves at output_path when it wrote there: an empty file or a
\* file with content.
OutSizes == {0, 1}
\* output_path before the call: nothing, or a file of an earlier run.
OutStart == {0 - 1, 1}

InitExtract ==
    /\ xSize \in InputSizes
    /\ xCopy \in BOOLEAN
    /\ xDisk \in BOOLEAN
    /\ has_ffmpeg \in BOOLEAN
    /\ PYAV_AVAILABLE \in BOOLEAN
    /\ xOut \in OutStart
    /\ xTried = <<>>
    /\ xRet = "none"
    /\ xPc = "start"
    /\ IdleSplit
    /\ IdleValidate
    /\ IdleOrder
    /\ IdlePlan
    /\ IdlePool
    /\ IdleShared
    /\ IdleTimeout
    /\ IdleProgress
    /\ IdleBatch

Attempt(backend, ok) == [b |-> backend, ok |-> ok]
XConfig == <<xSize, xCopy, xDisk, has_ffmpeg, PYAV_AVAILABLE>>

\* Mutant of XBegin: only use_disk_processing sends the call straight to ffmpeg.
MutXBeginIgnoresSize ==
    /\ xPc = "start"
    /\ IF xSize < 0
       THEN xRet' = "None" /\ xPc' = "done"
       ELSE /\ xRet' = xRet
            /\ xPc' = IF xCopy THEN "copy"
                      ELSE IF xDisk THEN "ffmpeg"
                      ELSE "pyav"
    /\ UNCHANGED <<XConfig, xOut, xTried>>
    /\ UNCHANGED notExtVars
\* extract_audio up to the choice of its path: a missing file returns None; an
\* input already in the output format is copied; a large file, or
\* use_disk_processing, goes straight to ffmpeg; anything else starts with PyAV.
XBegin ==
    /\ xPc = "start"
    /\ IF xSize < 0
       THEN xRet' = "None" /\ xPc' = "done"
       ELSE /\ xRet' = xRet
            /\ xPc' = IF xCopy THEN "copy"
                      ELSE IF xDisk \/ is_large_file(xSize) THEN "ffmpeg"
                      ELSE "pyav"
    /\ UNCHANGED <<XConfig, xOut, xTried>>
    /\ UNCHANGED notExtVars

\* shutil.copy2(file_path, output_path); return output_path.  The copy has the
\* bytes of the input; the call is outside the try block, so what it raises
\* reaches the caller.
XCopy ==
    /\ xPc = "copy"
    /\ \/ xOut' = xSize /\ xRet' = "path"
       \/ xOut' = xOut /\ xRet' = "raised"
    /\ xPc' = "done"
    /\ UNCHANGED <<XConfig, xTried>>
    /\ UNCHANGED notExtVars

\* _extract_with_pyav.  Without the av module the first use of `av` raises
\* NameError inside the method's try block: False.  With it the method fails (no
\* audio stream, or an exception before or after the output was opened) or runs
\* to the end, and then the output file is checked.
XPyav ==
    /\ xPc = "pyav"
    /\ \/ /\ ~PYAV_AVAILABLE
          /\ xOut' = xOut
          /\ xTried' = Append(xTried, Attempt("pyav", FALSE))
          /\ xPc' = "pydub" /\ xRet' = xRet
       \/ /\ PYAV_AVAILABLE
          /\ xOut' \in {xOut} \cup OutSizes
          /\ xTried' = Append(xTried, Attempt("pyav", FALSE))
          /\ xPc' = "pydub" /\ xRet' = xRet
       \/ /\ PYAV_AVAILABLE
          /\ xOut' \in OutSizes
          /\ IF ~(xOut' < 0 \/ xOut' = 0)
             THEN /\ xTried' = Append(xTried, Attempt("pyav", TRUE))
                  /\ xPc' = "done" /\ xRet' = "path"
             ELSE /\ xTried' = Append(xTried, Attempt("pyav", FALSE))
                  /\ xPc' = "pydub" /\ xRet' = xRet
    /\ UNCHANGED XConfig
    /\ UNCHANGED notExtVars

\* Mutant of XPydub: the exception of the call reaches the caller.
MutXPydubPropagates ==
    /\ xPc = "pydub"
    /\ xTried' = Append(xTried, Attempt("pydub", FALSE))
    /\ xPc' = "done"
    /\ xRet' = "raised"
    /\ UNCHANGED <<XConfig, xOut>>
    /\ UNCHANGED notExtVars
\* self._extract_with_pydub(...): AudioConverter defines no such method, the call
\* raises AttributeError, and the handler of extract_audio turns to ffmpeg.
XPydub ==
    /\ xPc = "pydub"
    /\ xTried' = Append(xTried, Attempt("pydub", FALSE))
    /\ xPc' = "fallback"
    /\ UNCHANGED <<XConfig, xOut, xRet>>
    /\ UNCHANGED notExtVars

\* Mutant of XFfmpeg: the output file is not checked after exit code 0.
MutXFfmpegNoCheck ==
    /\ xPc \in {"ffmpeg", "fallback"}
    /\ \/ /\ ~has_ffmpeg
          /\ xOut' = xOut
          /\ xTried' = Append(xTried, Attempt("ffmpeg", FALSE))
          /\ xRet' = "None"
       \/ /\ has_ffmpeg
          /\ xOut' \in {xOut} \cup OutSizes
          /\ xTried' = Append(xTried, Attempt("ffmpeg", FALSE))
          /\ xRet' = "None"
       \/ /\ has_ffmpeg
          /\ xOut' \in OutSizes
          /\ xTried' = Append(xTried, Attempt("ffmpeg", TRUE))
          /\ xRet' = "path"
    /\ xPc' = "done"
    /\ UNCHANGED XConfig
    /\ UNCHANGED notExtVars
\* _extract_with_ffmpeg, called from the try block or from the handler; its
\* result is what extract_audio returns.  self.has_ffmpeg is not consulted:
\* without the program subprocess.run raises FileNotFoundError; with it, a
\* non-zero exit raises CalledProcessError (check=True); both are caught and give
\* None.  After exit code 0 the output file is checked.
XFfmpeg ==
    /\ xPc \in {"ffmpeg", "fallback"}
    /\ \/ /\ ~has_ffmpeg
          /\ xOut' = xOut
          /\ xTried' = Append(xTried, Attempt("ffmpeg", FALSE))
          /\ xRet' = "None"
       \/ /\ has_ffmpeg
          /\ xOut' \in {xOut} \cup OutSizes
          /\ xTried' = Append(xTried, Attempt("ffmpeg", FALSE))
          /\ xRet' = "None"
       \/ /\ has_ffmpeg
          /\ xOut' \in OutSizes
          /\ IF ~(xOut' < 0 \/ xOut' = 0)
             THEN /\ xTried' = Append(xTried, Attempt("ffmpeg", TRUE))
                  /\ xRet' = "path"
             ELSE /\ xTried' = Append(xTried, Attempt("ffmpeg", FALSE))
                  /\ xRet' = "None"
    /\ xPc' = "done"
    /\ UNCHANGED XConfig
    /\ UNCHANGED notExtVars

NextExtract == XBegin \/ XCopy \/ XPyav \/ XPydub \/ XFfmpeg
SpecExtract == InitExtract /\ [][NextExtract]_vars

\* The names of the backends called so far, in order.
XBackends == [k \in 1 .. Len(xTried) |-> xTried[k].b]
XCalled(backend) == \E k \in 1 .. Len(xTried) : xTried[k].b = backend

FullChain == <<"pyav", "pydub", "ffmpeg">>
XChain == IF xDisk \/ is_large_file(xSize) THEN <<"ffmpeg">> ELSE FullChain
C15_ReturnedPathIsNonEmptyFile ==
    xSize > 0 =>
        /\ xRet = "path" => xOut > 0
        /\ xPc = "done" => xRet \in {"path", "None", "raised"}
\* The copy fast path returned the path of a copy of a non-empty input.
C15_Witness ==
    /\ xSize > 0 /\ xCopy
    /\ xPc = "done" /\ xRet = "path" /\ xOut = xSize

\* C16: a backend the construction-time probe found unavailable is never called
\* by extract.
C16_UnavailableNeverAttempted ==
    /\ ~has_ffmpeg => ~XCalled("ffmpeg")
    /\ ~PYAV_AVAILABLE => ~XCalled("pyav")

\* =========================================================================
\* SpecPlan: AudioSplitter.prepare_segments
\* =========================================================================
\* ".", "?", "!" and their CJK forms
TerminalPunctuation == {46, 63, 33, 12290, 65311, 65281}
\* last_char = text.strip()[-1] if text.strip() else "";  last_char in [...]
EndsSentence(text) ==
    LET t == Strip(text) IN t # <<>> /\ t[Len(t)] \in TerminalPunctuation

\* The new working buffer made of a raw segment.
NewBuffer(seg) == [start |-> seg.start, end |-> seg.end, text |-> Strip(seg.text)]
BufferDuration(buf) == buf.end - buf.start

\* The test of the loop that decides between merging the segment into the
\* buffer and closing the buffer.
MergesSegment(buf, seg, o) ==
    /\ BufferDuration(buf) + (seg.end - seg.start) <= o.max
    /\ (~o.preserve \/ (o.preserve /\ EndsSentence(buf.text)))

\* One pass of "for segment in segments", on the pair (temp_segment,
\* processed_segments): the segment starts a buffer, is merged into the buffer,
\* or the buffer is closed and the segment starts the next one; then a buffer
\* that has reached max_length is closed.
LoopPass(st, seg, o) ==
    LET afterAdd ==
            IF st.temp = <<>>
            THEN [temp |-> <<NewBuffer(seg)>>, out |-> st.out]
            ELSE IF MergesSegment(st.temp[1], seg, o)
                 THEN [temp |-> <<[st.temp[1] EXCEPT
                                      !.end = seg.end,
                                      !.text = @ \o <<32>> \o Strip(seg.text)]>>,
                       out |-> st.out]
                 ELSE [temp |-> <<NewBuffer(seg)>>, out |-> Append(st.out, st.temp[1])]
    IN  IF BufferDuration(afterAdd.temp[1]) >= o.max
        THEN [temp |-> <<>>, out |-> Append(afterAdd.out, afterAdd.temp[1])]
        ELSE afterAdd

\* After the loop: the last buffer is appended only when it is long enough or
\* nothing else was produced.
Flush(st, o) ==
    IF st.temp # <<>> /\ (BufferDuration(st.temp[1]) >= o.min \/ Len(st.out) = 0)
    THEN Append(st.out, st.temp[1])
    ELSE st.out

RECURSIVE LoopFrom(_, _, _, _)
LoopFrom(st, segs, k, o) ==
    IF k > Len(segs) THEN st ELSE LoopFrom(LoopPass(st, segs[k], o), segs, k + 1, o)
\* prepare_segments as a function of its arguments
prepare_segments(segs, o) ==
    IF segs = <<>> THEN <<>>
    ELSE Flush(LoopFrom([temp |-> <<>>, out |-> <<>>], segs, 1, o), o)

\* Raw segments as a transcription gives them: start < end, in time order, not
\* overlapping; the text is "", "k" or "H.".
PlanTimes == 0 .. MaxPlanTime
PlanTexts == {<<>>, <<107>>, <<72, 46>>}
RawPlanSegments ==
    {sg \in [start : PlanTimes, end : PlanTimes, text : PlanTexts] : sg.start < sg.end}
InOrder(l) == \A k \in 1 .. (Len(l) - 1) : l[k].end <= l[k + 1].start
PlanLists ==
    {l \in UNION {[1 .. n -> RawPlanSegments] : n \in 1 .. MaxPlanSegs} : InOrder(l)}
PlanOptions == [min : 1 .. MaxMinLength, max : 2 .. MaxMaxLength, preserve : BOOLEAN]
\* [{0,5,"Hello."},{5,6,"ok"},{6,40,"..."}] with min_length=3, max_length=30,
\* preserve_sentences=True
ExampleSegments ==
    << [start |-> 0, end |-> 5, text |-> <<72, 101, 108, 108, 111, 46>>],
       [start |-> 5, end |-> 6, text |-> <<111, 107>>],
       [start |-> 6, end |-> 40, text |-> <<46, 46, 46>>] >>
ExampleOptions == [min |-> 3, max |-> 30, preserve |-> TRUE]

InitPlan ==
    /\ \/ pSegs \in PlanLists /\ pOpts \in PlanOptions
       \/ pSegs = ExampleSegments /\ pOpts = ExampleOptions
    /\ pIdx = 1
    /\ temp_segment = <<>>
    /\ processed_segments = <<>>
    /\ pAgain = <<>>
    /\ pPc = "loop"
    /\ IdleSplit
    /\ IdleValidate
    /\ IdleOrder
    /\ IdleExtract
    /\ IdlePool
    /\ IdleShared
    /\ IdleTimeout
    /\ IdleProgress
    /\ IdleBatch

\* One pass of the loop.
PlanSegment ==
    /\ pPc = "loop"
    /\ pIdx <= Len(pSegs)
    /\ LET st == LoopPass([temp |-> temp_segment, out |-> processed_segments],
                          pSegs[pIdx], pOpts)
       IN  /\ temp_segment' = st.temp
           /\ processed_segments' = st.out
    /\ pIdx' = pIdx + 1
    /\ UNCHANGED <<pSegs, pOpts, pAgain, pPc>>
    /\ UNCHANGED notPlanVars

\* The end of the loop and the handling of the last buffer; the list is returned.
PlanFlush ==
    /\ pPc = "loop"
    /\ pIdx > Len(pSegs)
    /\ processed_segments' = Flush([temp |-> temp_segment, out |-> processed_segments], pOpts)
    /\ temp_segment' = temp_segment
    /\ pPc' = "again"
    /\ UNCHANGED <<pSegs, pOpts, pIdx, pAgain>>
    /\ UNCHANGED notPlanVars

\* The caller passes the returned list to prepare_segments once more, with the
\* same options.
PlanAgain ==
    /\ pPc = "again"
    /\ pAgain' = prepare_segments(processed_segments, pOpts)
    /\ pPc' = "done"
    /\ UNCHANGED <<pSegs, pOpts, pIdx, temp_segment, processed_segments>>
    /\ UNCHANGED notPlanVars

NextPlan == PlanSegment \/ PlanFlush \/ PlanAgain
SpecPlan == InitPlan /\ [][NextPlan]_vars

\* The (start, end) ranges of a list of segments.
Ranges(l) == [k \in 1 .. Len(l) |-> <<l[k].start, l[k].end>>]

\* The rule of C17 for closing the buffer before the next raw segment is added.
ShouldClose(buf, seg, o) ==
    \/ BufferDuration(buf) + (seg.end - seg.start) > o.max
    \/ (o.preserve /\ BufferDuration(buf) >= o.min /\ EndsSentence(buf.text))
\* This pass of the loop appends the buffer as it stands, without the segment.
ClosesBuffer ==
    /\ Len(processed_segments') > Len(processed_segments)
    /\ processed_segments'[Len(processed_segments) + 1] = temp_segment[1]
\* C17: in every pass of the loop that finds a working buffer, the buffer is
\* closed exactly when the next raw segment would take it over max_length, or
\* preserve_sentences is set, the buffer has at least min_length and its text
\* ends in terminal punctuation; otherwise the segment is merged into it.  And
\* the first planned segment of [{0,5,"Hello."},{5,6,"ok"},{6,40,"..."}] with
\* min_length=3, max_length=30, preserve_sentences=True is {start 0, end 5}.
C17_ClosesExactlyAtBoundary ==
    /\ [][(pPc = "loop" /\ pIdx <= Len(pSegs) /\ temp_segment # <<>>) =>
            (ClosesBuffer <=> ShouldClose(temp_segment[1], pSegs[pIdx], pOpts))]_vars
    /\ []((pPc = "done" /\ pSegs = ExampleSegments /\ pOpts = ExampleOptions) =>
            (processed_segments # <<>> /\ Ranges(processed_segments)[1] = <<0, 5>>))

\* C18: when prepare_segments has returned, the last planned segment covers the
\* time range of the last raw segment, and every raw segment lies within one of
\* the planned segments.
C18_LastBufferAlwaysFlushed ==
    pPc \in {"again", "done"} =>
        /\ processed_segments # <<>>
        /\ processed_segments[Len(processed_segments)].start <= pSegs[Len(pSegs)].start
        /\ processed_segments[Len(processed_segments)].end >= pSegs[Len(pSegs)].end
        /\ \A k \in 1 .. Len(pSegs) : \E m \in 1 .. Len(processed_segments) :
              /\ processed_segments[m].start <= pSegs[k].start
              /\ pSegs[k].end <= processed_segments[m].end

\* C19: prepare_segments applied with the same options to its own result gives
\* the same sequence of (start, end) ranges.
C19_PrepareIsIdempotent ==
    pPc = "done" => Ranges(pAgain) = Ranges(processed_segments)

\* C23: no segment prepare_segments returns is longer than max_length.
C23_PlannedWithinMaxLength ==
    pPc \in {"again", "done"} =>
        \A k \in 1 .. Len(processed_segments) :
            processed_segments[k].end - processed_segments[k].start <= pOpts.max

\* =========================================================================
\* SpecPool: the size of the worker pool of split
\* =========================================================================
InitPool ==
    /\ wWorkersArg \in 0 .. MaxPoolArg
    /\ wProcsArg \in 0 .. MaxPoolArg
    /\ wN \in 0 .. MaxPoolSegs
    /\ wMaxWorkers = 0
    /\ wMaxProcs = 0
    /\ wActual = 0
    /\ wPending = 0
    /\ wBusy = 0
    /\ wPc = "new"
    /\ IdleSplit
    /\ IdleValidate
    /\ IdleOrder
    /\ IdleExtract
    /\ IdlePlan
    /\ IdleShared
    /\ IdleTimeout
    /\ IdleProgress
    /\ IdleBatch

\* AudioSplitter.__init__: both arguments are clamped.
PoolConstruct ==
    /\ wPc = "new"
    /\ wMaxWorkers' = ClampWorkers(wWorkersArg)
    /\ wMaxProcs' = ClampProcs(wProcsArg)
    /\ wPc' = "ready"
    /\ UNCHANGED <<wWorkersArg, wProcsArg, wN, wActual, wPending, wBusy>>
    /\ UNCHANGED notPoolVars

\* split with wN valid segments: "return []" without a pool when there is none,
\* otherwise the pool is created with actual_workers threads and every task is
\* submitted.
PoolCreate ==
    /\ wPc = "ready"
    /\ IF wN = 0
       THEN wPc' = "done" /\ UNCHANGED <<wActual, wPending>>
       ELSE /\ wActual' = ActualWorkers(wMaxWorkers, wN, wMaxProcs)
            /\ wPending' = wN
            /\ wPc' = "pool"
    /\ UNCHANGED <<wWorkersArg, wProcsArg, wN, wMaxWorkers, wMaxProcs, wBusy>>
    /\ UNCHANGED notPoolVars

\* ThreadPoolExecutor: a task is taken while fewer than max_workers threads are
\* busy.
PoolStart ==
    /\ wPc = "pool"
    /\ wPending > 0
    /\ wBusy < wActual
    /\ wPending' = wPending - 1
    /\ wBusy' = wBusy + 1
    /\ UNCHANGED <<wWorkersArg, wProcsArg, wN, wMaxWorkers, wMaxProcs, wActual, wPc>>
    /\ UNCHANGED notPoolVars

\* A task returns and its thread is free again.
PoolFinish ==
    /\ wPc = "pool"
    /\ wBusy > 0
    /\ wBusy' = wBusy - 1
    /\ UNCHANGED <<wWorkersArg, wProcsArg, wN, wMaxWorkers, wMaxProcs, wActual, wPending,
                   wPc>>
    /\ UNCHANGED notPoolVars

\* The end of the with block: every task is done, the pool is shut down.
PoolShutdown ==
    /\ wPc = "pool"
    /\ wPending = 0
    /\ wBusy = 0
    /\ wPc' = "done"
    /\ UNCHANGED <<wWorkersArg, wProcsArg, wN, wMaxWorkers, wMaxProcs, wActual, wPending,
                   wBusy>>
    /\ UNCHANGED notPoolVars

NextPool == PoolConstruct \/ PoolCreate \/ PoolStart \/ PoolFinish \/ PoolShutdown
SpecPool == InitPool /\ [][NextPool]_vars

\* The three limits of the pool, and the least of them.
PoolLimits == {wMaxWorkers, wN, 2 * wMaxProcs}
LeastLimit == CHOOSE m \in PoolLimits : \A x \in PoolLimits : m <= x
\* C20: while the pool exists its size is the least of the configured
\* max_workers, the number of valid segments and twice the semaphore capacity;
\* it is at least 1, and never more tasks run at once than that.
C20_PoolSizeIsLeastLimit ==
    wPc = "pool" =>
        /\ wActual = LeastLimit
        /\ wActual >= 1
        /\ wBusy <= LeastLimit
\* Twice the capacity is the least limit: that many threads are busy and tasks wait.
C20_Witness ==
    /\ wPc = "pool"
    /\ wActual = 2 * wMaxProcs
    /\ wActual < wMaxWorkers /\ wActual < wN
    /\ wBusy = wActual
    /\ wPending > 0

\* =========================================================================
\* SpecShared: two AudioSplitter instances and the module-level semaphore
\* =========================================================================
\* The pool threads of a split running on the first instance, and those of a
\* split on the second one.
WorkersA == 1 .. NumWorkersA
WorkersB == (NumWorkersA + 1) .. (NumWorkersA + NumWorkersB)
SemObjects == {"A", "B"}

\* The first instance is constructed (its __init__ bound the global name to a
\* Semaphore of capA units) and a split is running on it; the second instance
\* is not constructed yet.
InitShared ==
    /\ \E a \in 1 .. MaxSharedProcsArg : capA = ClampProcs(a)
    /\ \E b \in 1 .. MaxSharedProcsArg : capB = ClampProcs(b)
    /\ FFMPEG_SEMAPHORE = "A"
    /\ semFree = [o \in SemObjects |-> IF o = "A" THEN capA ELSE 0]
    /\ secondBuilt = FALSE
    /\ gPc = [w \in WorkersA \cup WorkersB |-> "idle"]
    /\ gSem = [w \in WorkersA \cup WorkersB |-> "none"]
    /\ IdleSplit
    /\ IdleValidate
    /\ IdleOrder
    /\ IdleExtract
    /\ IdlePlan
    /\ IdlePool
    /\ IdleTimeout
    /\ IdleProgress
    /\ IdleBatch

\* AudioSplitter.__init__ of the second instance: "global FFMPEG_SEMAPHORE;
\* FFMPEG_SEMAPHORE = threading.Semaphore(self.max_ffmpeg_processes)".
ConstructSecond ==
    /\ ~secondBuilt
    /\ FFMPEG_SEMAPHORE' = "B"
    /\ semFree' = [semFree EXCEPT !["B"] = capB]
    /\ secondBuilt' = TRUE
    /\ UNCHANGED <<capA, capB, gPc, gSem>>
    /\ UNCHANGED notSemVars

\* _split_with_ffmpeg reaches "with FFMPEG_SEMAPHORE:": the global name is looked
\* up now, and the thread acquires, and later releases, the object found.
EnterWith(w) ==
    /\ gPc[w] = "idle"
    /\ w \in WorkersB => secondBuilt
    /\ gSem' = [gSem EXCEPT ![w] = FFMPEG_SEMAPHORE]
    /\ gPc' = [gPc EXCEPT ![w] = "waiting"]
    /\ UNCHANGED <<capA, capB, FFMPEG_SEMAPHORE, semFree, secondBuilt>>
    /\ UNCHANGED notSemVars

\* The acquire returns and the ffmpeg child is spawned.
AcquireShared(w) ==
    /\ gPc[w] = "waiting"
    /\ semFree[gSem[w]] > 0
    /\ semFree' = [semFree EXCEPT ![gSem[w]] = @ - 1]
    /\ gPc' = [gPc EXCEPT ![w] = "in"]
    /\ UNCHANGED <<capA, capB, FFMPEG_SEMAPHORE, secondBuilt, gSem>>
    /\ UNCHANGED notSemVars

\* The child has ended and the with block is left: the unit goes back to the
\* object it was taken from; the thread goes on to its next task.
ReleaseShared(w) ==
    /\ gPc[w] = "in"
    /\ semFree' = [semFree EXCEPT ![gSem[w]] = @ + 1]
    /\ gSem' = [gSem EXCEPT ![w] = "none"]
    /\ gPc' = [gPc EXCEPT ![w] = "idle"]
    /\ UNCHANGED <<capA, capB, FFMPEG_SEMAPHORE, secondBuilt>>
    /\ UNCHANGED notSemVars

NextShared ==
    \/ ConstructSecond
    \/ \E w \in WorkersA \cup WorkersB : EnterWith(w)
    \/ \E w \in WorkersA \cup WorkersB : AcquireShared(w)
    \/ \E w \in WorkersA \cup WorkersB : ReleaseShared(w)
SpecShared == InitShared /\ [][NextShared]_vars

\* C25: whatever a second instance does, the threads of the first instance take
\* their units from the semaphore of the first instance, and never more than
\* capA of its ffmpeg children are alive at once.
C25_InstancesDoNotInterfere ==
    /\ \A w \in WorkersA : gSem[w] \in {"none", "A"}
    /\ Cardinality({w \in WorkersA : gPc[w] = "in"}) <= capA

\* =========================================================================
\* SpecTimeout: the timeout given to process.communicate
\* =========================================================================
\* Python's int(): truncation towards zero, of the fraction num / den.
IntTrunc(num, den) ==
    IF num >= 0 THEN num \div den ELSE 0 - ((0 - num) \div den)

\* Mutant of TimeoutSeconds: the 10 s floor is left out.
MutTimeoutNoFloor(ticks) ==
    Min2(120, IntTrunc(5 * ticks, TicksPerSecond))
\* "timeout_seconds = max(10, min(120, int(duration * 5)))", for a duration of
\* ticks / TicksPerSecond seconds (such a duration and its product by 5 are
\* exact in floating point).
TimeoutSeconds(ticks) ==
    Max2(10, Min2(120, IntTrunc(5 * ticks, TicksPerSecond)))

\* Two calls of _split_with_ffmpeg with durations of any length.
InitTimeout ==
    /\ durations \in [1 .. 2 -> 0 .. MaxTicks]
    /\ timeout_seconds = <<>>
    /\ IdleSplit
    /\ IdleValidate
    /\ IdleOrder
    /\ IdleExtract
    /\ IdlePlan
    /\ IdlePool
    /\ IdleShared
    /\ IdleProgress
    /\ IdleBatch

\* The next call computes its timeout.
ComputeTimeout ==
    /\ Len(timeout_seconds) < Len(durations)
    /\ timeout_seconds' =
           Append(timeout_seconds, TimeoutSeconds(durations[Len(timeout_seconds) + 1]))
    /\ UNCHANGED durations
    /\ UNCHANGED notTimeoutVars

NextTimeout == ComputeTimeout
SpecTimeout == InitTimeout /\ [][NextTimeout]_vars

\* floor(5 * d) for d = ticks / TicksPerSecond: the greatest integer not above it.
FloorOf5d(ticks) ==
    CHOOSE n \in 0 .. 5 * (MaxTicks \div TicksPerSecond + 1) :
        /\ n * TicksPerSecond <= 5 * ticks
        /\ (n + 1) * TicksPerSecond > 5 * ticks
BoundedFloor(ticks) ==
    LET f == FloorOf5d(ticks)
        capped == IF f < 120 THEN f ELSE 120
    IN  IF capped > 10 THEN capped ELSE 10

\* C27: the timeout of a call of duration d >= 0 is max(10, min(120, floor(5d))),
\* it lies between 10 and 120, and a longer duration never gets a shorter timeout.
C27_TimeoutBoundedMonotone ==
    /\ \A i \in DOMAIN timeout_seconds :
           /\ timeout_seconds[i] = BoundedFloor(durations[i])
           /\ timeout_seconds[i] >= 10
           /\ timeout_seconds[i] <= 120
    /\ \A i, j \in DOMAIN timeout_seconds :
           durations[i] <= durations[j] => timeout_seconds[i] <= timeout_seconds[j]
\* Both clamps and the range between them have been computed: a duration of
\* less than 2 s got 10, one of more than 24 s got 120.
C27_Witness ==
    /\ Len(timeout_seconds) = 2
    /\ 5 * durations[1] < 10 * TicksPerSecond
    /\ timeout_seconds[1] = 10
    /\ 5 * durations[2] > 121 * TicksPerSecond
    /\ timeout_seconds[2] = 120

\* ---- the life of a job (SpecLive) ----
\* The state of the future of job i: pending until a pool thread takes it,
\* running inside split_task, then done with a path (succeeded) or None (failed).
JobState(i) ==
    IF pc[i] = "pending" THEN "pending"
    ELSE IF pc[i] \in {"returned", "collected"}
         THEN (IF result[i] = "ok" THEN "succeeded" ELSE "failed")
         ELSE "running"
JobTransitions ==
    {<<"pending", "running">>, <<"running", "succeeded">>, <<"running", "failed">>}
AllJobsTerminal == \A i \in Jobs : JobState(i) \in {"succeeded", "failed"}

CbJobs == 1 .. cbTotal
\* What the callers of the repository pass as on_progress: the caller's
\* progress_callback itself, the lambda of the adapter's standard mode, or
\* batch_progress_callback of the adapter's batch mode.
CbModes == {"direct", "standard", "batch"}

\* "progress_percent = int((current / total) * 100) if total > 0 else 0"
ProgressPercent(current, total) ==
    IF total > 0 THEN (100 * current) \div total ELSE 0

\* The lambda of the standard mode, "lambda current, total: progress_callback(
\* f'...', int(current/total*100))", called with (message, percent): the
\* arguments of progress_callback are evaluated first, and current / total raises
\* TypeError unless current is a number.
StandardLambdaRaises(firstArgType) == firstArgType # "number"
\* batch_progress_callback: int(batch_progress_base + percent / 100 *
\* batch_progress_step), with base = batch_idx / num_batches * 100 and
\* step = 100 / num_batches.
BatchPercent(idx, percent) == (100 * idx + percent) \div NumBatches

\* The percents progress_callback has received once on_progress(message, percent)
\* was called; an exception of on_progress is caught and logged by split_task.
AfterOnProgress(percent) ==
    CASE cbMode = "direct" -> Append(cbSeen, percent)
      [] cbMode = "standard" ->
            IF StandardLambdaRaises("str") THEN cbSeen ELSE Append(cbSeen, percent)
      [] cbMode = "batch" -> Append(cbSeen, BatchPercent(cbBatch, percent))

\* split has validated cbTotal segments and submitted their jobs.
InitProgress ==
    /\ cbMode \in CbModes
    /\ cbBatch \in (IF cbMode = "batch" THEN 0 .. NumBatches - 1 ELSE {0})
    /\ cbTotal \in 1 .. MaxCbJobs
    /\ cbMonitor = [current |-> 0, success |-> 0, failed |-> 0]
    /\ cbPc = [i \in CbJobs |-> "run"]
    /\ cbSnap = [i \in CbJobs |-> 0]
    /\ cbCounter = <<>>
    /\ cbSeen = <<>>
    /\ IdleSplit
    /\ IdleValidate
    /\ IdleOrder
    /\ IdleExtract
    /\ IdlePlan
    /\ IdlePool
    /\ IdleShared
    /\ IdleTimeout
    /\ IdleBatch

\* split_task, "with progress_monitor['lock']:" after _split_segment returned:
\* current and one of success / failed are incremented, and current is read,
\* in one critical section.
UpdateProgress(i) ==
    /\ cbPc[i] = "run"
    /\ \E success \in BOOLEAN :
         cbMonitor' =
              [current |-> cbMonitor.current + 1,
               success |-> cbMonitor.success + (IF success THEN 1 ELSE 0),
               failed  |-> cbMonitor.failed + (IF success THEN 0 ELSE 1)]
    /\ cbSnap' = [cbSnap EXCEPT ![i] = cbMonitor.current + 1]
    /\ cbCounter' = Append(cbCounter, cbMonitor.current + 1)
    /\ cbPc' = [cbPc EXCEPT ![i] = "call"]
    /\ UNCHANGED <<cbMode, cbBatch, cbTotal, cbSeen>>
    /\ UNCHANGED notCbVars

\* split_task after the critical section: the percent is computed from the value
\* read and on_progress is called, with the lock released.
CallOnProgress(i) ==
    /\ cbPc[i] = "call"
    /\ cbSeen' = AfterOnProgress(ProgressPercent(cbSnap[i], cbTotal))
    /\ cbPc' = [cbPc EXCEPT ![i] = "done"]
    /\ UNCHANGED <<cbMode, cbBatch, cbTotal, cbMonitor, cbSnap, cbCounter>>
    /\ UNCHANGED notCbVars

NextProgress ==
    \/ \E i \in CbJobs : UpdateProgress(i)
    \/ \E i \in CbJobs : CallOnProgress(i)
SpecProgress == InitProgress /\ [][NextProgress]_vars

CbDone == {i \in CbJobs : cbPc[i] = "done"}

\* C28: progress_callback has been invoked once for each job that completed (N
\* times at the end), the counter took the values 1, 2, ... each once, and at
\* the end success + failed = N.
C28_OneCallbackPerJob ==
    /\ Len(cbSeen) = Cardinality(CbDone)
    /\ cbCounter = [k \in 1 .. cbMonitor.current |-> k]
    /\ CbDone = CbJobs => cbMonitor.success + cbMonitor.failed = cbTotal

\* C29: the percents received by progress_callback never decrease, and once all
\* the jobs of a call of split have reported, the last percent received by its
\* on_progress is 100.
C29_PercentsNonDecreasing ==
    /\ \A k \in 1 .. Len(cbSeen) - 1 : cbSeen[k] <= cbSeen[k + 1]
    /\ (cbMode = "direct" /\ CbDone = CbJobs) => cbSeen[Len(cbSeen)] = 100

\* =========================================================================
\* SpecBatch: the calls of split made by AudioProcessorAdapter.split_audio
\* =========================================================================
\* No text, or one of two short texts.
BatchTexts == {<<>>, <<97>>, <<98>>}

\* "if batch_size > 1 and len(segment_options_list) > batch_size"
BatchMode == batch_size > 1 /\ Len(bTexts) > batch_size
\* num_batches = (len(segment_options_list) + batch_size - 1) // batch_size
num_batches == (Len(bTexts) + batch_size - 1) \div batch_size

\* The paths one call of split gives to the segments it is passed: split_task is
\* submitted with the index of the segment in that list.
SplitPaths(texts) == [j \in 1 .. Len(texts) |-> OutputPath(j - 1, texts[j])]
\* The paths of the jobs that succeeded, in list order.
RECURSIVE SucceededPaths(_, _)
SucceededPaths(paths, ok) ==
    IF paths = <<>> THEN <<>>
    ELSE LET n == Len(paths)
             before == SucceededPaths(SubSeq(paths, 1, n - 1), ok)
         IN  IF ok[n] THEN Append(before, paths[n]) ELSE before

\* split_audio has built segment_options_list (every element has start < end
\* inside the audio) and settled the batch size.
InitBatch ==
    /\ \E n \in 1 .. MaxBatchSegs : bTexts \in [1 .. n -> BatchTexts]
    /\ batch_size \in 1 .. MaxBatchSize
    /\ batch_idx = 0
    /\ bAssigned = <<>>
    /\ all_output_files = <<>>
    /\ bRet = <<>>
    /\ bPc = "call"
    /\ IdleSplit
    /\ IdleValidate
    /\ IdleOrder
    /\ IdleExtract
    /\ IdlePlan
    /\ IdlePool
    /\ IdleShared
    /\ IdleTimeout
    /\ IdleProgress

\* One pass of the batch loop: split is called with the next slice and the same
\* output_dir; its result, when not empty, is added to all_output_files.
BatchCall ==
    /\ bPc = "call"
    /\ BatchMode
    /\ batch_idx < num_batches
    /\ LET start_idx == batch_idx * batch_size
           end_idx == Min2(start_idx + batch_size, Len(bTexts))
           batch_segments == SubSeq(bTexts, start_idx + 1, end_idx)
           paths == SplitPaths(batch_segments)
       IN  /\ bAssigned' = bAssigned \o paths
           /\ \E ok \in [1 .. Len(paths) -> BOOLEAN] :
                all_output_files' = all_output_files \o Sorted(SucceededPaths(paths, ok))
    /\ batch_idx' = batch_idx + 1
    /\ UNCHANGED <<bTexts, batch_size, bRet, bPc>>
    /\ UNCHANGED notBatchVars

\* The batch loop is over: return all_output_files.
BatchReturn ==
    /\ bPc = "call"
    /\ BatchMode
    /\ batch_idx = num_batches
    /\ bRet' = all_output_files
    /\ bPc' = "done"
    /\ UNCHANGED <<bTexts, batch_size, batch_idx, bAssigned, all_output_files>>
    /\ UNCHANGED notBatchVars

\* The standard mode: one call of split with the whole list; its result is
\* returned ([] when it is empty).
StandardCall ==
    /\ bPc = "call"
    /\ ~BatchMode
    /\ LET paths == SplitPaths(bTexts)
       IN  /\ bAssigned' = paths
           /\ \E ok \in [1 .. Len(paths) -> BOOLEAN] :
                /\ all_output_files' = Sorted(SucceededPaths(paths, ok))
                /\ bRet' = Sorted(SucceededPaths(paths, ok))
    /\ bPc' = "done"
    /\ UNCHANGED <<bTexts, batch_size, batch_idx>>
    /\ UNCHANGED notBatchVars

NextBatch ==
    \/ BatchCall
    \/ BatchReturn
    \/ StandardCall
SpecBatch == InitBatch /\ [][NextBatch]_vars

NoDuplicate(s) == \A a, b \in DOMAIN s : a # b => s[a] # s[b]

\* C30: within one request no two segments are given the same output path, and
\* the list returned holds no path twice.
C30_OutputPathsDistinct ==
    /\ NoDuplicate(bAssigned)
    /\ NoDuplicate(bRet)

====
